---- MODULE Spec2Model ----
(***************************************************************************)
(* Model of crawlers/mooncrawl/mooncrawl/cu_reports_crawler/cli.py:        *)
(* the batch handler run_tokenomics_queries_handler, generate_report and   *)
(* the poll loop recive_S3_data_from_query.  The query API, the            *)
(* conditional fetch and the publish call are the environment: each call   *)
(* either returns or raises, and a fetch returns any status with any body. *)
(***************************************************************************)
EXTENDS Integers, Sequences, FiniteSets, TLC

(* ---------------------------------------------------------------------- *)
(* Bounds and program constants                                            *)
(* ---------------------------------------------------------------------- *)

\* largest retry budget explored besides the default one
MaxRetriesBound == 3

\* default of the max_retries parameter
DefaultMaxRetries == 20

\* retry budgets a poll cycle is run with
RetryBudgets == (0 .. MaxRetriesBound) \cup {DefaultMaxRetries}

OK == 200

Statuses == {200, 304, 403}

Bodies == {"{\"x\":1}", ""}

Responses == [status_code : Statuses, body : Bodies]

NoResponse == [status_code |-> 0, body |-> ""]

NoJson == [none |-> TRUE]

\* default of the time_await parameter, in seconds
TimeAwait == 2

\* time.sleep(2) before the initial trigger
InitialSleep == 2

\* timeout of the conditional fetch, in seconds
FetchTimeout == 5

\* datetime.utcnow() formatted for the header, named by the call of
\* generate_report and the place in it where the clock is read
UtcNow(call, place) == <<"utcnow", call, place>>

NoBaseline == <<"utcnow", 0, "none">>

NoRequest == [url |-> 0, if_modified_since |-> NoBaseline, timeout |-> 0,
              after_sleep |-> 0]

\* requests.get(data_url.url, headers={"If-Modified-Since": ...}, timeout=5),
\* with the seconds slept since the previous external call
Request(url, since, slept) ==
    [url |-> url, if_modified_since |-> since, timeout |-> FetchTimeout,
     after_sleep |-> slept]

\* largest number of query definitions in a list of queries
MaxQueries == 3

\* the names of the query definitions of a list
QueryNames == 1 .. MaxQueries

\* a --name argument that no query definition has
UnknownName == 0

NoCalls == [q \in QueryNames \cup {UnknownName} |-> 0]

\* argparse.Namespace of the run-tokenonomics subcommand
RunArgs == [command |-> "run-tokenonomics", overwrite |-> FALSE, name |-> UnknownName]

(* ---------------------------------------------------------------------- *)
(* The catalogue of reports of run_tokenomics_queries_handler              *)
(* ---------------------------------------------------------------------- *)

addresess_erc20_721 ==
    << <<"0x64060aB139Feaae7f06Ca4E63189D86aDEb51691", "ERC20">>,
       <<"0x431CD3C9AC9Fc73644BF68bF5691f4B83F9E104f", "ERC20">>,
       <<"0xdC0479CC5BbA033B3e7De9F178607150B3AbCe1f", "NFT">>,
       <<"0xA2a13cE1824F3916fC84C65e559391fc6674e6e8", "NFT">>,
       <<"0xa7D50EE3D7485288107664cf758E877a0D351725", "NFT">> >>

addresess_erc1155 == << "0x99A558BDBdE247C2B2716f0D4cFb0E246DFB697D" >>

ranges == << "24 hours", "7 days", "30 days" >>

amounts == << "10", "100" >>

\* str.replace(" ", "_") on the time ranges of the catalogue
ReplaceSpace(s) ==
    CASE s = "24 hours" -> "24_hours"
      [] s = "7 days"   -> "7_days"
      [] s = "30 days"  -> "30_days"
      [] OTHER          -> s

RECURSIVE Flatten(_)
Flatten(ss) == IF ss = << >> THEN << >> ELSE Head(ss) \o Flatten(Tail(ss))

IsNFT(a) == a[2] = "NFT"

Addresses(as) == [i \in 1 .. Len(as) |-> as[i][1]]

NFTAddresses == Addresses(SelectSeq(addresess_erc20_721, IsNFT))

\* one report per (address, part): key = query_name/address/part/data.json
PerAddressAndPart(query_name, addrs, parts) ==
    Flatten([i \in 1 .. Len(addrs) |->
        [j \in 1 .. Len(parts) |->
            [query_name |-> query_name,
             key |-> <<query_name, addrs[i], parts[j], "data.json">>]]])

\* variant: the address is left out of the key
PerAddress_NoAddress(query_name, addrs) ==
    [i \in 1 .. Len(addrs) |->
        [query_name |-> query_name,
         key |-> <<query_name, "data.json">>]]

\* one report per address: key = query_name/address/data.json
PerAddress(query_name, addrs) ==
    [i \in 1 .. Len(addrs) |->
        [query_name |-> query_name,
         key |-> <<query_name, addrs[i], "data.json">>]]

RangeParts == [j \in 1 .. Len(ranges) |-> ReplaceSpace(ranges[j])]

Catalogue ==
    PerAddressAndPart("erc20_721_volume", Addresses(addresess_erc20_721), RangeParts)
    \o PerAddressAndPart("volume_change", Addresses(addresess_erc20_721), RangeParts)
    \o PerAddressAndPart("erc1155_volume", addresess_erc1155, RangeParts)
    \o PerAddressAndPart("most_recent_sale", NFTAddresses, amounts)
    \o PerAddressAndPart("most_active_buyers", NFTAddresses, RangeParts)
    \o PerAddressAndPart("most_active_sellers", NFTAddresses, RangeParts)
    \o PerAddress("lagerst_owners", NFTAddresses)
    \o PerAddress("total_supply_erc721", NFTAddresses)
    \o PerAddress("total_supply_terminus", addresess_erc1155)

NumReports == Len(Catalogue)

MOONSTREAM_S3_PUBLIC_DATA_BUCKET == "MOONSTREAM_S3_PUBLIC_DATA_BUCKET"

MOONSTREAM_S3_PUBLIC_DATA_BUCKET_PREFIX == "MOONSTREAM_S3_PUBLIC_DATA_BUCKET_PREFIX"

(* ---------------------------------------------------------------------- *)
(* Pure helpers of the poll loop                                           *)
(* ---------------------------------------------------------------------- *)

\* variant: the loop waits for "not modified" instead of success
IsSuccess_NotModified(status_code) == status_code = 304

\* data_response.status_code == 200
IsSuccess(status_code) == status_code = OK

\* variant: re-trigger on every attempt from the halfway point on
ShouldRetrigger_FromHalfway(r, n) == r >= n \div 2

\* variant: re-trigger one attempt after the halfway point
ShouldRetrigger_OneLate(r, n) == r = n \div 2 + 1

\* repeat == max_retries // 2
ShouldRetrigger(r, n) == r = n \div 2

\* variant: the limit check is off by one
LimitExceeded_Late(r, n) == r > n + 1

\* repeat > max_retries
LimitExceeded(r, n) == r > n

\* response.json(): raises on a body that is not JSON
JsonValid(body) == body # ""

JsonLoads(body) ==
    CASE body = "{\"x\":1}" -> [x |-> 1]
      [] OTHER -> NoJson

\* json.dumps(json_data)
JsonDumps(value) ==
    CASE value = [x |-> 1] -> "{\"x\": 1}"
      [] OTHER -> "null"

\* variant: the clause catches the JSON decoding error only
ExceptionCaught_OnlyValueError(e) == e = "json_error"

\* except Exception: every error the external calls raise is an Exception
Errors == {"exec_query_error", "json_error", "upload_error"}

ExceptionCaught(e) == e \in Errors

(* ---------------------------------------------------------------------- *)
(* State                                                                   *)
(* ---------------------------------------------------------------------- *)

VARIABLES
    max_retries,    \* the retry budget the poll cycles run with
    pc,             \* position of the single thread of control
    reportIdx,      \* index of the catalogue entry the handler is at
    started,        \* number of generate_report calls made by the handler
    repeat,         \* attempt counter of the poll cycle
    data_url,       \* fetch location: 0 none, 1 initial trigger, 2 re-trigger
    data_response,  \* the last fetch response received in the cycle
    json_data,      \* value returned by recive_S3_data_from_query
    err,            \* the exception in flight, "" when none
    checks,         \* statuses examined in the cycle
    execCalls,      \* client.exec_query calls of the cycle
    uploadCalls,    \* client.upload_query_results calls of the cycle
    uploaded,       \* objects written by the cycle: <<bucket, path, payload>>
    log,            \* lines printed by the cycle
    prevOutcome,    \* how the previous report's cycle ended
    if_modified_since, \* the not-modified-since baseline of the cycle
    sleptFor,       \* seconds slept since the last external call
    request,        \* arguments of the last requests.get call of the cycle
    args,           \* the parsed command line
    queryIdx,       \* index of the query a handler's loop is at
    createCalls,    \* client.create_query calls per query name
    deleteCalls     \* client.delete_query calls per query name

vars == <<max_retries, pc, reportIdx, started, repeat, data_url, data_response,
          json_data, err, checks, execCalls, uploadCalls, uploaded,
          log, prevOutcome, if_modified_since, sleptFor, request, args,
          queryIdx, createCalls, deleteCalls>>

\* the state of the handlers other than run_tokenomics_queries_handler
cliVars == <<args, queryIdx, createCalls, deleteCalls>>

\* the baseline, the sleep and the request of a poll cycle
pollAux == <<if_modified_since, sleptFor, request>>

handlerVars == <<max_retries, reportIdx, started, prevOutcome>>

Report == Catalogue[reportIdx]

\* f"{bucket_prefix}/{key}"
UploadPath(r) == <<MOONSTREAM_S3_PUBLIC_DATA_BUCKET_PREFIX>> \o r.key

GeneratedLine(r) ==
    [msg |-> "Report generated and results uploaded at",
     bucket |-> MOONSTREAM_S3_PUBLIC_DATA_BUCKET,
     path |-> UploadPath(r)]

FailureLine(r, e) ==
    [msg |-> "Cant recive or load data for s3",
     query |-> r.query_name,
     bucket |-> MOONSTREAM_S3_PUBLIC_DATA_BUCKET,
     key |-> r.key,
     error |-> e]

TooManyLine == [msg |-> "Too many retries"]

TransportLine == [msg |-> "transport error"]

DoneLine == [msg |-> "Done"]

\* how a finished generate_report call ended
Outcome ==
    IF err # "" THEN err
    ELSE IF TooManyLine \in log THEN "uploaded_after_exhaustion"
    ELSE "uploaded"

Init ==
    /\ max_retries \in RetryBudgets
    /\ pc = "handler"
    /\ reportIdx = 1
    /\ started = 0
    /\ repeat = 0
    /\ data_url = 0
    /\ data_response = NoResponse
    /\ json_data = NoJson
    /\ err = ""
    /\ checks = 0
    /\ execCalls = 0
    /\ uploadCalls = 0
    /\ uploaded = {}
    /\ log = {}
    /\ prevOutcome = "none"
    /\ if_modified_since = NoBaseline
    /\ sleptFor = 0
    /\ request = NoRequest
    /\ args = RunArgs
    /\ queryIdx = 0
    /\ createCalls = NoCalls
    /\ deleteCalls = NoCalls

(* ---------------------------------------------------------------------- *)
(* run_tokenomics_queries_handler                                          *)
(* ---------------------------------------------------------------------- *)

\* the handler calls generate_report for the next catalogue entry, which
\* enters recive_S3_data_from_query up to the sleep before the trigger
CallGenerateReport ==
    /\ pc = "handler"
    /\ reportIdx <= NumReports
    /\ started' = started + 1
    /\ repeat' = 0
    /\ pc' = "exec_query"
    /\ UNCHANGED <<max_retries, reportIdx, prevOutcome, data_url, data_response,
                   json_data, err, checks, execCalls, uploadCalls, uploaded, log>>
    /\ if_modified_since' = UtcNow(started + 1, "start")
    /\ sleptFor' = InitialSleep
    /\ request' = NoRequest
    /\ UNCHANGED cliVars

\* every generate_report call has returned: print("Done")
HandlerDone ==
    /\ pc = "handler"
    /\ reportIdx > NumReports
    /\ log' = {DoneLine}
    /\ pc' = "done"
    /\ UNCHANGED <<max_retries, reportIdx, started, repeat, data_url,
                   data_response, json_data, err, checks, execCalls, uploadCalls, uploaded, prevOutcome>>
    /\ UNCHANGED <<pollAux, cliVars>>

(* ---------------------------------------------------------------------- *)
(* recive_S3_data_from_query                                               *)
(* ---------------------------------------------------------------------- *)

\* data_url = client.exec_query(...) returns a fetch location
ExecQueryOk ==
    /\ pc = "exec_query"
    /\ execCalls' = execCalls + 1
    /\ data_url' = 1
    /\ pc' = "sleep"
    /\ UNCHANGED <<handlerVars, repeat, data_response, json_data, err, checks,
                   uploadCalls, uploaded, log>>
    /\ sleptFor' = 0
    /\ UNCHANGED <<if_modified_since, request, cliVars>>

\* client.exec_query(...) raises
ExecQueryRaise ==
    /\ pc = "exec_query"
    /\ execCalls' = execCalls + 1
    /\ err' = "exec_query_error"
    /\ pc' = "raised"
    /\ UNCHANGED <<handlerVars, repeat, data_url, data_response, json_data,
                   checks, uploadCalls, uploaded, log>>
    /\ sleptFor' = 0
    /\ UNCHANGED <<if_modified_since, request, cliVars>>

\* while keep_going: time.sleep(time_await)
Sleep ==
    /\ pc = "sleep"
    /\ pc' = "fetch"
    /\ UNCHANGED <<handlerVars, repeat, data_url, data_response, json_data, err,
                   checks, execCalls, uploadCalls, uploaded, log>>
    /\ sleptFor' = TimeAwait
    /\ UNCHANGED <<if_modified_since, request, cliVars>>

\* variant: a failed fetch is tried again at once, without the sleep
FetchTransportFailure_NoSleep ==
    /\ pc = "fetch"
    /\ log' = log \cup {TransportLine}
    /\ pc' = "fetch"
    /\ request' = Request(data_url, if_modified_since, sleptFor)
    /\ sleptFor' = 0
    /\ UNCHANGED <<handlerVars, repeat, data_url, data_response, json_data, err,
                   checks, execCalls, uploadCalls, uploaded, if_modified_since,
                   cliVars>>

\* variant: a failed fetch counts against the budget and can end the loop
FetchTransportFailure_Budgeted ==
    /\ pc = "fetch"
    /\ repeat' = repeat + 1
    /\ IF repeat + 1 > max_retries
       THEN /\ log' = log \cup {TransportLine, TooManyLine}
            /\ pc' = "return"
       ELSE /\ log' = log \cup {TransportLine}
            /\ pc' = "sleep"
    /\ request' = Request(data_url, if_modified_since, sleptFor)
    /\ sleptFor' = 0
    /\ UNCHANGED <<handlerVars, data_url, data_response, json_data, err,
                   checks, execCalls, uploadCalls, uploaded, if_modified_since,
                   cliVars>>

\* variant: the counter is incremented before the fetch is attempted
FetchTransportFailure_Counted ==
    /\ pc = "fetch"
    /\ repeat' = repeat + 1
    /\ log' = log \cup {TransportLine}
    /\ pc' = "sleep"
    /\ UNCHANGED <<handlerVars, data_url, data_response, json_data, err,
                   checks, execCalls, uploadCalls, uploaded>>
    /\ request' = Request(data_url, if_modified_since, sleptFor)
    /\ sleptFor' = 0
    /\ UNCHANGED <<if_modified_since, cliVars>>

\* requests.get raises: print(e); continue
FetchTransportFailure ==
    /\ pc = "fetch"
    /\ log' = log \cup {TransportLine}
    /\ pc' = "sleep"
    /\ UNCHANGED <<handlerVars, repeat, data_url, data_response, json_data, err,
                   checks, execCalls, uploadCalls, uploaded>>
    /\ request' = Request(data_url, if_modified_since, sleptFor)
    /\ sleptFor' = 0
    /\ UNCHANGED <<if_modified_since, cliVars>>

\* variant: raise_for_status() inside the try block, so that a non-200
\* response is handled by the except branch and never reaches the counter
FetchResponse_RaiseForStatus(r) ==
    /\ pc = "fetch"
    /\ data_response' = r
    /\ IF r.status_code = OK
       THEN /\ checks' = checks + 1
            /\ pc' = "return"
            /\ UNCHANGED log
       ELSE /\ log' = log \cup {TransportLine}
            /\ pc' = "sleep"
            /\ UNCHANGED checks
    /\ UNCHANGED <<handlerVars, repeat, data_url, json_data, err, execCalls,
                   uploadCalls, uploaded>>
    /\ request' = Request(data_url, if_modified_since, sleptFor)
    /\ sleptFor' = 0
    /\ UNCHANGED <<if_modified_since, cliVars>>

\* requests.get returns r: the status check, the counter and the limit
FetchResponse(r) ==
    /\ pc = "fetch"
    /\ data_response' = r
    /\ checks' = checks + 1
    /\ IF IsSuccess(r.status_code)
       THEN /\ pc' = "return"
            /\ UNCHANGED <<repeat, log>>
       ELSE /\ repeat' = repeat + 1
            /\ IF ShouldRetrigger(repeat + 1, max_retries)
               THEN /\ pc' = "retrigger"
                    /\ UNCHANGED log
               ELSE IF LimitExceeded(repeat + 1, max_retries)
               THEN /\ log' = log \cup {TooManyLine}
                    /\ pc' = "return"
               ELSE /\ pc' = "sleep"
                    /\ UNCHANGED log
    /\ UNCHANGED <<handlerVars, data_url, json_data, err, execCalls, uploadCalls,
                   uploaded>>
    /\ request' = Request(data_url, if_modified_since, sleptFor)
    /\ sleptFor' = 0
    /\ UNCHANGED <<if_modified_since, cliVars>>

\* variant: the baseline is recorded again at the re-trigger
RetriggerOk_NewBaseline ==
    /\ pc = "retrigger"
    /\ execCalls' = execCalls + 1
    /\ data_url' = 2
    /\ if_modified_since' = UtcNow(started, "retrigger")
    /\ pc' = "sleep"
    /\ sleptFor' = 0
    /\ UNCHANGED <<handlerVars, repeat, data_response, json_data, err, checks,
                   uploadCalls, uploaded, log, request, cliVars>>

\* variant: the location returned by the re-trigger is dropped
RetriggerOk_KeepsUrl ==
    /\ pc = "retrigger"
    /\ execCalls' = execCalls + 1
    /\ pc' = "sleep"
    /\ sleptFor' = 0
    /\ UNCHANGED <<handlerVars, repeat, data_url, data_response, json_data, err,
                   checks, uploadCalls, uploaded, log, if_modified_since,
                   request, cliVars>>

\* variant: the re-trigger starts the attempt counter again
RetriggerOk_Rebase ==
    /\ pc = "retrigger"
    /\ execCalls' = execCalls + 1
    /\ data_url' = 2
    /\ repeat' = 0
    /\ pc' = "sleep"
    /\ sleptFor' = 0
    /\ UNCHANGED <<handlerVars, data_response, json_data, err, checks,
                   uploadCalls, uploaded, log, if_modified_since, request,
                   cliVars>>

\* the halfway client.exec_query returns a new location, then the limit check
RetriggerOk ==
    /\ pc = "retrigger"
    /\ execCalls' = execCalls + 1
    /\ data_url' = 2
    /\ IF LimitExceeded(repeat, max_retries)
       THEN /\ log' = log \cup {TooManyLine}
            /\ pc' = "return"
       ELSE /\ pc' = "sleep"
            /\ UNCHANGED log
    /\ UNCHANGED <<handlerVars, repeat, data_response, json_data, err, checks,
                   uploadCalls, uploaded>>
    /\ sleptFor' = 0
    /\ UNCHANGED <<if_modified_since, request, cliVars>>

\* variant: a failed re-trigger is swallowed and the loop goes on
RetriggerRaise_Swallowed ==
    /\ pc = "retrigger"
    /\ execCalls' = execCalls + 1
    /\ pc' = "sleep"
    /\ sleptFor' = 0
    /\ UNCHANGED <<handlerVars, repeat, data_url, data_response, json_data, err,
                   checks, uploadCalls, uploaded, log, if_modified_since,
                   request, cliVars>>

\* the halfway client.exec_query raises
RetriggerRaise ==
    /\ pc = "retrigger"
    /\ execCalls' = execCalls + 1
    /\ err' = "exec_query_error"
    /\ pc' = "raised"
    /\ UNCHANGED <<handlerVars, repeat, data_url, data_response, json_data,
                   checks, uploadCalls, uploaded, log>>
    /\ sleptFor' = 0
    /\ UNCHANGED <<if_modified_since, request, cliVars>>

\* return data_response.json(), the body of the last response received
ReturnJson ==
    /\ pc = "return"
    /\ IF JsonValid(data_response.body)
       THEN /\ json_data' = JsonLoads(data_response.body)
            /\ pc' = "upload"
            /\ UNCHANGED err
       ELSE /\ err' = "json_error"
            /\ pc' = "raised"
            /\ UNCHANGED json_data
    /\ UNCHANGED <<handlerVars, repeat, data_url, data_response, checks,
                   execCalls, uploadCalls, uploaded, log>>
    /\ UNCHANGED <<pollAux, cliVars>>

(* ---------------------------------------------------------------------- *)
(* generate_report                                                         *)
(* ---------------------------------------------------------------------- *)

\* client.upload_query_results(...) succeeds; the success line is printed
UploadOk ==
    /\ pc = "upload"
    /\ uploadCalls' = uploadCalls + 1
    /\ uploaded' = uploaded \cup
         {<<MOONSTREAM_S3_PUBLIC_DATA_BUCKET, UploadPath(Report), JsonDumps(json_data)>>}
    /\ log' = log \cup {GeneratedLine(Report)}
    /\ pc' = "finished"
    /\ UNCHANGED <<handlerVars, repeat, data_url, data_response, json_data, err,
                   checks, execCalls>>
    /\ UNCHANGED <<pollAux, cliVars>>

\* client.upload_query_results(...) raises
UploadRaise ==
    /\ pc = "upload"
    /\ uploadCalls' = uploadCalls + 1
    /\ err' = "upload_error"
    /\ pc' = "raised"
    /\ UNCHANGED <<handlerVars, repeat, data_url, data_response, json_data,
                   checks, execCalls, uploaded, log>>
    /\ UNCHANGED <<pollAux, cliVars>>

\* variant: the except clause tries the upload again
ExceptClause_RetryUpload ==
    /\ pc = "raised"
    /\ IF err = "upload_error"
       THEN /\ pc' = "upload"
            /\ UNCHANGED log
       ELSE /\ log' = log \cup {FailureLine(Report, err)}
            /\ pc' = "finished"
    /\ UNCHANGED <<handlerVars, repeat, data_url, data_response, json_data, err,
                   checks, execCalls, uploadCalls, uploaded>>
    /\ UNCHANGED <<pollAux, cliVars>>

\* except Exception as err: print the failure line; an exception the clause
\* does not catch leaves generate_report and the handler
ExceptClause ==
    /\ pc = "raised"
    /\ IF ExceptionCaught(err)
       THEN /\ log' = log \cup {FailureLine(Report, err)}
            /\ pc' = "finished"
       ELSE /\ pc' = "crashed"
            /\ UNCHANGED log
    /\ UNCHANGED <<handlerVars, repeat, data_url, data_response, json_data, err,
                   checks, execCalls, uploadCalls, uploaded>>
    /\ UNCHANGED <<pollAux, cliVars>>

\* generate_report returns, its frame and the cycle's record are dropped, and
\* the handler's loop moves to the next entry
ReturnToHandler ==
    /\ pc = "finished"
    /\ reportIdx' = reportIdx + 1
    /\ prevOutcome' = Outcome
    /\ repeat' = 0
    /\ data_url' = 0
    /\ data_response' = NoResponse
    /\ json_data' = NoJson
    /\ err' = ""
    /\ checks' = 0
    /\ execCalls' = 0
    /\ uploadCalls' = 0
    /\ uploaded' = {}
    /\ log' = {}
    /\ pc' = "handler"
    /\ UNCHANGED <<max_retries, started>>
    /\ if_modified_since' = NoBaseline
    /\ sleptFor' = 0
    /\ request' = NoRequest
    /\ UNCHANGED cliVars

Next ==
    \/ CallGenerateReport
    \/ HandlerDone
    \/ ExecQueryOk
    \/ ExecQueryRaise
    \/ Sleep
    \/ FetchTransportFailure
    \/ \E r \in Responses : FetchResponse(r)
    \/ RetriggerOk
    \/ RetriggerRaise
    \/ ReturnJson
    \/ UploadOk
    \/ UploadRaise
    \/ ExceptClause
    \/ ReturnToHandler

Spec == Init /\ [][Next]_vars

\* the thread of control always takes its next step; which outcome an
\* external call has is not constrained
FairSpec == Spec /\ WF_vars(Next)

(* ---------------------------------------------------------------------- *)
(* The other handlers main dispatches to                                   *)
(* ---------------------------------------------------------------------- *)

\* most non-200 responses the storage gives for one query of the bank report
MaxChecks == 23

\* time.sleep(2) after a non-200 response in generate_game_bank_report
GameBankSleep == 2

CliCommands ==
    {"list", "create", "delete", "init-game-bank", "init-tokenonomics",
     "generate-reports"}

InitCommands == {"init-game-bank", "init-tokenonomics"}

\* the namespaces parse_args can give: --overwrite exists for the init
\* subcommands, --name for create and delete
CliArgs ==
    {a \in [command : CliCommands, overwrite : BOOLEAN,
            name : QueryNames \cup {UnknownName}] :
        /\ a.overwrite => a.command \in InitCommands
        /\ a.name # UnknownName => a.command \in {"create", "delete"}}

\* state of the tokenomics batch, which these handlers leave alone
reportVars == <<max_retries, reportIdx, started, repeat, json_data, uploadCalls,
                uploaded, prevOutcome, request>>

\* state of the fetch loop of generate_game_bank_report
gbVars == <<data_url, data_response, checks, execCalls, if_modified_since,
            sleptFor>>

ListedLine(q) == [msg |-> "query", name |-> q]

DeletedLine(q) == [msg |-> "Query was deleted", name |-> q]

CreatedLine(q) == [msg |-> "Created query", name |-> q]

CantCreateLine(q, e) == [msg |-> "Cant create user query", name |-> q, error |-> e]

\* print(err) / print(e) of the init handlers, for query q
ErrorLine(q, e) == [msg |-> "error", name |-> q, error |-> e]

CliInit ==
    /\ args \in CliArgs
    /\ pc = "main"
    /\ max_retries = DefaultMaxRetries
    /\ reportIdx = 1
    /\ started = 0
    /\ repeat = 0
    /\ data_url = 0
    /\ data_response = NoResponse
    /\ json_data = NoJson
    /\ err = ""
    /\ checks = 0
    /\ execCalls = 0
    /\ uploadCalls = 0
    /\ uploaded = {}
    /\ log = {}
    /\ prevOutcome = "none"
    /\ if_modified_since = NoBaseline
    /\ sleptFor = 0
    /\ request = NoRequest
    /\ queryIdx = 0
    /\ createCalls = NoCalls
    /\ deleteCalls = NoCalls

\* args.func(args): the handler of the subcommand is entered
Dispatch ==
    /\ pc = "main"
    /\ pc' = args.command
    /\ queryIdx' = 1
    /\ UNCHANGED <<reportVars, gbVars, err, log, args, createCalls, deleteCalls>>

(* list_user_queries_handler *)

\* client.list_queries returns; every query is printed
ListQueriesOk ==
    /\ pc = "list"
    /\ log' = {ListedLine(q) : q \in QueryNames}
    /\ pc' = "exit"
    /\ UNCHANGED <<reportVars, gbVars, err, cliVars>>

\* client.list_queries raises: nothing in the handler catches it
ListQueriesRaise ==
    /\ pc = "list"
    /\ err' = "list_queries_error"
    /\ pc' = "crashed"
    /\ UNCHANGED <<reportVars, gbVars, log, cliVars>>

(* delete_user_query_handler -> delete_user_query *)

DeleteUserQueryOk ==
    /\ pc = "delete"
    /\ deleteCalls' = [deleteCalls EXCEPT ![args.name] = @ + 1]
    /\ log' = {DeletedLine(args.name)}
    /\ pc' = "exit"
    /\ UNCHANGED <<reportVars, gbVars, err, args, queryIdx, createCalls>>

\* client.delete_query raises: neither function catches it
DeleteUserQueryRaise ==
    /\ pc = "delete"
    /\ deleteCalls' = [deleteCalls EXCEPT ![args.name] = @ + 1]
    /\ err' = "delete_query_error"
    /\ pc' = "crashed"
    /\ UNCHANGED <<reportVars, gbVars, log, args, queryIdx, createCalls>>

(* create_user_query_handler -> create_user_query *)

\* if query["name"] == args.name is false
CreateHandlerSkip ==
    /\ pc = "create"
    /\ queryIdx <= MaxQueries
    /\ queryIdx # args.name
    /\ queryIdx' = queryIdx + 1
    /\ UNCHANGED <<reportVars, gbVars, pc, err, log, args, createCalls, deleteCalls>>

CreateUserQueryOk ==
    /\ pc = "create"
    /\ queryIdx <= MaxQueries
    /\ queryIdx = args.name
    /\ createCalls' = [createCalls EXCEPT ![queryIdx] = @ + 1]
    /\ queryIdx' = queryIdx + 1
    /\ UNCHANGED <<reportVars, gbVars, pc, err, log, args, deleteCalls>>

\* client.create_query raises: except Exception prints the line
CreateUserQueryRaise ==
    /\ pc = "create"
    /\ queryIdx <= MaxQueries
    /\ queryIdx = args.name
    /\ createCalls' = [createCalls EXCEPT ![queryIdx] = @ + 1]
    /\ log' = log \cup {CantCreateLine(queryIdx, "create_query_error")}
    /\ queryIdx' = queryIdx + 1
    /\ UNCHANGED <<reportVars, gbVars, pc, err, args, deleteCalls>>

CreateHandlerReturn ==
    /\ pc = "create"
    /\ queryIdx > MaxQueries
    /\ pc' = "exit"
    /\ UNCHANGED <<reportVars, gbVars, err, log, cliVars>>

(* init_game_bank_queries_handler and init_tokenomics_queries_handler *)

\* for query in ...: if args.overwrite
InitNextQuery ==
    /\ pc \in InitCommands
    /\ queryIdx <= MaxQueries
    /\ pc' = IF args.overwrite THEN "init_delete" ELSE "init_create"
    /\ UNCHANGED <<reportVars, gbVars, err, log, cliVars>>

\* delete_user_query returns
InitDeleteOk ==
    /\ pc = "init_delete"
    /\ deleteCalls' = [deleteCalls EXCEPT ![queryIdx] = @ + 1]
    /\ log' = log \cup {DeletedLine(queryIdx)}
    /\ pc' = "init_create"
    /\ UNCHANGED <<reportVars, gbVars, err, args, queryIdx, createCalls>>

\* variant: without the inner try, the outer except clause ends the item
InitDeleteRaise_OuterOnly ==
    /\ pc = "init_delete"
    /\ deleteCalls' = [deleteCalls EXCEPT ![queryIdx] = @ + 1]
    /\ log' = log \cup {ErrorLine(queryIdx, "delete_query_error")}
    /\ queryIdx' = queryIdx + 1
    /\ pc' = args.command
    /\ UNCHANGED <<reportVars, gbVars, err, args, createCalls>>

\* delete_user_query raises: the inner except prints the error
InitDeleteRaise ==
    /\ pc = "init_delete"
    /\ deleteCalls' = [deleteCalls EXCEPT ![queryIdx] = @ + 1]
    /\ log' = log \cup {ErrorLine(queryIdx, "delete_query_error")}
    /\ pc' = "init_create"
    /\ UNCHANGED <<reportVars, gbVars, err, args, queryIdx, createCalls>>

\* client.create_query returns; the created entry is printed
InitCreateOk ==
    /\ pc = "init_create"
    /\ createCalls' = [createCalls EXCEPT ![queryIdx] = @ + 1]
    /\ log' = log \cup {CreatedLine(queryIdx)}
    /\ queryIdx' = queryIdx + 1
    /\ pc' = args.command
    /\ UNCHANGED <<reportVars, gbVars, err, args, deleteCalls>>

\* client.create_query raises: the outer except prints the error
InitCreateRaise ==
    /\ pc = "init_create"
    /\ createCalls' = [createCalls EXCEPT ![queryIdx] = @ + 1]
    /\ log' = log \cup {ErrorLine(queryIdx, "create_query_error")}
    /\ queryIdx' = queryIdx + 1
    /\ pc' = args.command
    /\ UNCHANGED <<reportVars, gbVars, err, args, deleteCalls>>

InitHandlerReturn ==
    /\ pc \in InitCommands
    /\ queryIdx > MaxQueries
    /\ pc' = "exit"
    /\ UNCHANGED <<reportVars, gbVars, err, log, cliVars>>

(* generate_game_bank_report *)

\* client.list_queries returns the queries the loop goes through
GameBankListOk ==
    /\ pc = "generate-reports"
    /\ pc' = "gb_query"
    /\ UNCHANGED <<reportVars, gbVars, err, log, cliVars>>

GameBankListRaise ==
    /\ pc = "generate-reports"
    /\ err' = "list_queries_error"
    /\ pc' = "crashed"
    /\ UNCHANGED <<reportVars, gbVars, log, cliVars>>

\* the baseline is recorded and client.exec_query returns a location
GameBankExecOk ==
    /\ pc = "gb_query"
    /\ queryIdx <= MaxQueries
    /\ if_modified_since' = UtcNow(queryIdx, "start")
    /\ execCalls' = execCalls + 1
    /\ data_url' = 1
    /\ pc' = "gb_fetch"
    /\ UNCHANGED <<reportVars, data_response, checks, sleptFor, err, log, cliVars>>

GameBankExecRaise ==
    /\ pc = "gb_query"
    /\ queryIdx <= MaxQueries
    /\ if_modified_since' = UtcNow(queryIdx, "start")
    /\ execCalls' = execCalls + 1
    /\ err' = "exec_query_error"
    /\ pc' = "crashed"
    /\ UNCHANGED <<reportVars, data_url, data_response, checks, sleptFor, log,
                   cliVars>>

\* requests.get raises: the loop has no try block
GameBankFetchRaise ==
    /\ pc = "gb_fetch"
    /\ err' = "fetch_error"
    /\ sleptFor' = 0
    /\ pc' = "crashed"
    /\ UNCHANGED <<reportVars, data_url, data_response, checks, execCalls,
                   if_modified_since, log, cliVars>>

\* variant: the loop gives up after the default budget and goes on
GameBankResponse_Budgeted(r) ==
    /\ pc = "gb_fetch"
    /\ data_response' = r
    /\ IF r.status_code = OK \/ checks + 1 > DefaultMaxRetries
       THEN /\ queryIdx' = queryIdx + 1
            /\ execCalls' = 0
            /\ checks' = 0
            /\ data_url' = 0
            /\ sleptFor' = 0
            /\ pc' = "gb_query"
       ELSE /\ checks' = checks + 1
            /\ sleptFor' = GameBankSleep
            /\ pc' = "gb_fetch"
            /\ UNCHANGED <<queryIdx, execCalls, data_url>>
    /\ UNCHANGED <<reportVars, if_modified_since, err, log, args, createCalls,
                   deleteCalls>>

\* requests.get returns r: on 200 the body is parsed and the loop of this
\* query ends, otherwise time.sleep(2) and the next fetch
GameBankResponse(r) ==
    /\ pc = "gb_fetch"
    /\ data_response' = r
    /\ IF r.status_code = OK
       THEN IF JsonValid(r.body)
            THEN /\ queryIdx' = queryIdx + 1
                 /\ execCalls' = 0
                 /\ checks' = 0
                 /\ data_url' = 0
                 /\ sleptFor' = 0
                 /\ pc' = "gb_query"
                 /\ UNCHANGED err
            ELSE /\ checks' = checks + 1
                 /\ err' = "json_error"
                 /\ sleptFor' = 0
                 /\ pc' = "crashed"
                 /\ UNCHANGED <<queryIdx, execCalls, data_url>>
       ELSE /\ checks < MaxChecks
            /\ checks' = checks + 1
            /\ sleptFor' = GameBankSleep
            /\ pc' = "gb_fetch"
            /\ UNCHANGED <<queryIdx, execCalls, data_url, err>>
    /\ UNCHANGED <<reportVars, if_modified_since, log, args, createCalls,
                   deleteCalls>>

GameBankReturn ==
    /\ pc = "gb_query"
    /\ queryIdx > MaxQueries
    /\ pc' = "exit"
    /\ UNCHANGED <<reportVars, gbVars, err, log, cliVars>>

CliNext ==
    \/ Dispatch
    \/ ListQueriesOk
    \/ ListQueriesRaise
    \/ DeleteUserQueryOk
    \/ DeleteUserQueryRaise
    \/ CreateHandlerSkip
    \/ CreateUserQueryOk
    \/ CreateUserQueryRaise
    \/ CreateHandlerReturn
    \/ InitNextQuery
    \/ InitDeleteOk
    \/ InitDeleteRaise
    \/ InitCreateOk
    \/ InitCreateRaise
    \/ InitHandlerReturn
    \/ GameBankListOk
    \/ GameBankListRaise
    \/ GameBankExecOk
    \/ GameBankExecRaise
    \/ GameBankFetchRaise
    \/ \E r \in Responses : GameBankResponse(r)
    \/ GameBankReturn

CliSpec == CliInit /\ [][CliNext]_vars

(* ---------------------------------------------------------------------- *)
(* Positions of a poll cycle                                               *)
(* ---------------------------------------------------------------------- *)

\* inside the while loop of recive_S3_data_from_query
InPoll == pc \in {"sleep", "fetch", "retrigger"}

\* the loop was left: by break (the return statement is next) or by an
\* exception of the re-trigger
PollExited == pc \in {"return", "raised"}

\* the attempt counter went past the budget: the "Too many retries" exit
Exhausted == TooManyLine \in log

(* ---------------------------------------------------------------------- *)
(* C1: upload_query_results is invoked only when the poll cycle ended on   *)
(* a response with status 200; a payload of a non-200 response is never    *)
(* uploaded.                                                               *)
(* ---------------------------------------------------------------------- *)
C1_UploadOnlyAfterSuccess ==
    uploadCalls > 0 => data_response.status_code = 200

(* ---------------------------------------------------------------------- *)
(* C2: when the attempt counter exceeds max_retries without a 200          *)
(* response, the poll returns no payload, nothing is uploaded and          *)
(* generate_report prints the failure line with query, bucket and key.     *)
(* ---------------------------------------------------------------------- *)
C2_ExhaustionReturnsNoPayload ==
    (pc = "finished" /\ repeat > max_retries)
        => /\ json_data = NoJson
           /\ uploaded = {}
           /\ \E e \in Errors : FailureLine(Report, e) \in log

(* ---------------------------------------------------------------------- *)
(* C3: for every budget N >= 0 a poll cycle examines the status of at most *)
(* N+1 fetch responses; there is never an (N+2)-th check.                  *)
(* ---------------------------------------------------------------------- *)
C3_AtMostNPlusOneChecks ==
    checks <= max_retries + 1

C3_Witness ==
    /\ max_retries = DefaultMaxRetries
    /\ checks = max_retries + 1
    /\ Exhausted
    /\ pc = "return"

(* ---------------------------------------------------------------------- *)
(* C4 as stated: every poll cycle exits its loop, whatever the sequence of *)
(* fetch outcomes, transport failures included.                            *)
(* ---------------------------------------------------------------------- *)
C4_EveryCycleExits ==
    InPoll ~> PollExited

(* ---------------------------------------------------------------------- *)
(* C4 amended: every poll cycle exits its loop unless fetch transport      *)
(* failures recur forever; only responses count against the budget.        *)
(* ---------------------------------------------------------------------- *)
C4_ExitsUnlessTransportFailuresRecur ==
    (InPoll ~> PollExited) \/ []<><<FetchTransportFailure>>_vars

C4_Witness ==
    /\ PollExited
    /\ TransportLine \in log
    /\ checks > 0

\* past the loop: the return statement, the upload, the except clause, the end
AfterPoll == pc \in {"return", "upload", "raised", "finished"}

\* recive_S3_data_from_query has returned a value to generate_report
Returned == pc = "upload" \/ (pc \in {"raised", "finished"} /\ uploadCalls > 0)

(* ---------------------------------------------------------------------- *)
(* C5: if the first response of a poll cycle has status 200 the poll       *)
(* returns its parsed body at once: no further fetch is issued and         *)
(* exec_query has been called exactly once, for every max_retries >= 0.    *)
(* ---------------------------------------------------------------------- *)
C5_FirstSuccessReturnsAtOnce ==
    (checks = 1 /\ data_response.status_code = 200)
        => /\ AfterPoll
           /\ repeat = 0
           /\ execCalls = 1
           /\ data_url = 1
           /\ Returned => json_data = JsonLoads(data_response.body)
           /\ (pc = "raised" /\ ~Returned)
                => (err = "json_error" /\ ~JsonValid(data_response.body))

C5_Witness ==
    /\ max_retries = 0
    /\ checks = 1
    /\ data_response.status_code = 200
    /\ pc = "upload"
    /\ json_data = [x |-> 1]

(* ---------------------------------------------------------------------- *)
(* C6 as stated: the query is re-triggered exactly once per poll cycle and *)
(* never more than once, for every max_retries >= 0, so every cycle that   *)
(* runs to budget exhaustion has made exactly two exec_query calls.        *)
(* ---------------------------------------------------------------------- *)
C6_RetriggeredExactlyOnce ==
    /\ execCalls <= 2
    /\ Exhausted => execCalls = 2

(* ---------------------------------------------------------------------- *)
(* C6 amended: the query is re-triggered at most once, at the moment the   *)
(* attempt counter is incremented to floor(max_retries/2), which happens   *)
(* only when max_retries >= 2; with max_retries 0 or 1 it is never         *)
(* re-triggered.  A cycle that runs to exhaustion has re-triggered exactly *)
(* once when max_retries >= 2 and not at all otherwise.                    *)
(* ---------------------------------------------------------------------- *)
C6_RetriggeredAtHalfwayOnly ==
    /\ execCalls <= 2
    /\ pc = "retrigger" => (repeat = max_retries \div 2 /\ execCalls = 1)
    /\ execCalls = 2
         <=> (max_retries >= 2 /\ repeat >= max_retries \div 2 /\ pc # "retrigger")
    /\ Exhausted => execCalls = (IF max_retries >= 2 THEN 2 ELSE 1)

C6_Witness ==
    /\ max_retries = DefaultMaxRetries
    /\ Exhausted
    /\ execCalls = 2
    /\ data_url = 2

(* ---------------------------------------------------------------------- *)
(* C7 as stated: when k <= N non-200 responses are followed by a 200       *)
(* response with body B and no fetch failed at transport level, the poll   *)
(* returns B after exactly k+1 checks, having re-triggered exactly when    *)
(* k >= floor(N/2).                                                        *)
(* ---------------------------------------------------------------------- *)
C7_ReturnsBodyAfterKPlusOneChecks ==
    (data_response.status_code = 200 /\ TransportLine \notin log)
        => /\ AfterPoll
           /\ repeat <= max_retries
           /\ checks = repeat + 1
           /\ Returned => json_data = JsonLoads(data_response.body)
           /\ execCalls = 2 <=> repeat >= max_retries \div 2

(* ---------------------------------------------------------------------- *)
(* C7 amended: as stated, except that the poll has re-triggered exactly    *)
(* when N >= 2 and k >= floor(N/2); with N = 0 or N = 1 it never           *)
(* re-triggers.  With N = 20 and ten non-200 responses the 11th response,  *)
(* 200 with body {"x":1}, is returned after 11 checks and one re-trigger.  *)
(* ---------------------------------------------------------------------- *)
C7_ReturnsBodyRetriggeredFromTwo ==
    (data_response.status_code = 200 /\ TransportLine \notin log)
        => /\ AfterPoll
           /\ repeat <= max_retries
           /\ checks = repeat + 1
           /\ Returned => json_data = JsonLoads(data_response.body)
           /\ (JsonValid(data_response.body) /\ pc \in {"raised", "finished"})
                => Returned
           /\ execCalls = 2
                <=> (max_retries >= 2 /\ repeat >= max_retries \div 2)

C7_Witness ==
    /\ max_retries = 20
    /\ repeat = 10
    /\ checks = 11
    /\ execCalls = 2
    /\ data_response = [status_code |-> 200, body |-> "{\"x\":1}"]
    /\ TransportLine \notin log
    /\ pc = "upload"
    /\ json_data = [x |-> 1]

(* ---------------------------------------------------------------------- *)
(* C8: a transport failure of the conditional fetch is retried and leaves  *)
(* the poll state unchanged: the attempt counter, the fetch location and   *)
(* the number of exec_query calls stay as they are and the loop goes on    *)
(* with the next sleep.                                                    *)
(* ---------------------------------------------------------------------- *)
\* a fetch that delivered no response
TransportFailureStep == pc = "fetch" /\ checks' = checks /\ pc' # pc

C8_TransportFailureKeepsPollState ==
    [][TransportFailureStep =>
         /\ repeat' = repeat
         /\ data_url' = data_url
         /\ execCalls' = execCalls
         /\ data_response' = data_response
         /\ pc' = "sleep"]_vars

C8_Witness ==
    /\ pc = "sleep"
    /\ TransportLine \in log
    /\ repeat > 0
    /\ data_url = 2

(* ---------------------------------------------------------------------- *)
(* C9: a failed report never stops the batch: whatever way the earlier     *)
(* reports ended, every report of the catalogue is started, one after the  *)
(* other, each after the previous one has finished, and once the last one  *)
(* has finished the handler prints Done.                                   *)
(* ---------------------------------------------------------------------- *)
BatchInOrder ==
    /\ pc # "crashed"
    /\ reportIdx \in 1 .. NumReports + 1
    /\ started = (IF pc \in {"handler", "done"} THEN reportIdx - 1 ELSE reportIdx)
    /\ pc = "done" => (started = NumReports /\ DoneLine \in log)

C9_FailedReportNeverStopsBatch ==
    /\ []BatchInOrder
    /\ (pc = "finished") ~> (pc \in {"exec_query", "done"})

C9_Witness ==
    /\ pc = "exec_query"
    /\ reportIdx = NumReports
    /\ started = NumReports
    /\ prevOutcome = "upload_error"

(* ---------------------------------------------------------------------- *)
(* C10: the publish step is never retried: one generate_report call        *)
(* invokes upload_query_results at most once; when the call fails nothing  *)
(* is written, the success line is not printed and the failure line with   *)
(* query, bucket and key is.                                               *)
(* ---------------------------------------------------------------------- *)
C10_PublishNeverRetried ==
    /\ uploadCalls <= 1
    /\ (pc = "finished" /\ err = "upload_error")
         => /\ uploadCalls = 1
            /\ uploaded = {}
            /\ GeneratedLine(Report) \notin log
            /\ FailureLine(Report, "upload_error") \in log

C10_Witness ==
    /\ pc = "finished"
    /\ err = "upload_error"
    /\ uploadCalls = 1

(* ---------------------------------------------------------------------- *)
(* C11: no error is fatal to the process: in every handler main dispatches *)
(* to, an error of an external call is caught inside the handler and none  *)
(* propagates to main.                                                     *)
(* ---------------------------------------------------------------------- *)
C11_NoErrorLeavesHandler ==
    pc # "crashed"

\* an init handler is running or has returned
IsInit == args.command \in InitCommands /\ pc # "main"

\* the delete of query q was attempted: its item is past the delete step
DeleteAttempted(q) ==
    q < queryIdx \/ (q = queryIdx /\ pc = "init_create")

(* ---------------------------------------------------------------------- *)
(* C12: the init handlers attempt the create of every query definition     *)
(* exactly once, whether or not the delete before it failed (overwrite     *)
(* set) and whether or not the steps of earlier definitions failed.        *)
(* ---------------------------------------------------------------------- *)
C12_CreateOncePerDefinition ==
    IsInit =>
        /\ pc # "crashed"
        /\ queryIdx \in 1 .. MaxQueries + 1
        /\ pc = "exit" => queryIdx = MaxQueries + 1
        /\ \A q \in QueryNames :
            /\ createCalls[q] = IF q < queryIdx THEN 1 ELSE 0
            /\ deleteCalls[q] =
                   IF args.overwrite /\ DeleteAttempted(q) THEN 1 ELSE 0

\* a delete and a create failed for the first definition, and the handler
\* still went through the create of the last one
C12_Witness ==
    /\ IsInit
    /\ pc = "exit"
    /\ args.overwrite
    /\ ErrorLine(1, "delete_query_error") \in log
    /\ ErrorLine(1, "create_query_error") \in log
    /\ ErrorLine(MaxQueries, "delete_query_error") \in log
    /\ createCalls[MaxQueries] = 1

(* ---------------------------------------------------------------------- *)
(* C13: a report artifact is written once: a generate_report call passes   *)
(* one key to upload_query_results at most once, that key is the key of    *)
(* its own catalogue entry and of no other entry, and every entry is the   *)
(* subject of one call only.                                               *)
(* ---------------------------------------------------------------------- *)
\* a generate_report call is in progress
InCycle == pc \notin {"handler", "done", "crashed"}

C13_EachKeyWrittenOnce ==
    /\ uploadCalls <= 1
    /\ Cardinality(uploaded) <= uploadCalls
    /\ InCycle => started = reportIdx
    /\ \A u \in uploaded :
         \A j \in 1 .. NumReports :
            (u[2] = UploadPath(Catalogue[j])) <=> (j = reportIdx)

C13_Witness ==
    /\ pc = "finished"
    /\ reportIdx = NumReports
    /\ uploaded = {<<MOONSTREAM_S3_PUBLIC_DATA_BUCKET,
                     UploadPath(Catalogue[NumReports]), "{\"x\": 1}">>}

(* ---------------------------------------------------------------------- *)
(* C14: every conditional fetch is immediately preceded by a sleep of      *)
(* time_await seconds, the retry after a transport failure and the fetch   *)
(* after a re-trigger included.                                            *)
(* ---------------------------------------------------------------------- *)
C14_FetchPrecededBySleep ==
    request # NoRequest => request.after_sleep = TimeAwait

C14_Witness ==
    /\ request.url = 2
    /\ request.after_sleep = TimeAwait
    /\ TransportLine \in log
    /\ pc = "sleep"

(* ---------------------------------------------------------------------- *)
(* C15: the not-modified-since baseline is recorded once, before the       *)
(* initial trigger, and never changes during the cycle: every fetch of the *)
(* cycle, also after the re-trigger, carries that value.                   *)
(* ---------------------------------------------------------------------- *)
C15_BaselineRecordedOnce ==
    InCycle =>
        /\ if_modified_since = UtcNow(started, "start")
        /\ request # NoRequest => request.if_modified_since = if_modified_since

C15_Witness ==
    /\ execCalls = 2
    /\ request.url = 2
    /\ request.if_modified_since = UtcNow(started, "start")
    /\ started > 1

(* ---------------------------------------------------------------------- *)
(* C16: every fetch before the halfway re-trigger uses the location of the *)
(* initial trigger, every fetch after it the location the re-trigger       *)
(* returned, and the location changes at no other point of the cycle.      *)
(* ---------------------------------------------------------------------- *)
C16_LocationFollowsTrigger ==
    [][/\ pc = "fetch" => request'.url = (IF execCalls = 2 THEN 2 ELSE 1)
       /\ data_url' # data_url =>
            \/ pc = "exec_query" /\ data_url' = 1
            \/ pc = "retrigger" /\ data_url' = 2
            \/ pc = "finished" /\ data_url' = 0]_vars

C16_Witness ==
    /\ request.url = 2
    /\ data_url = 2
    /\ checks > repeat
    /\ pc = "return"

(* ---------------------------------------------------------------------- *)
(* C17: the attempt counter stays within 0 .. max_retries+1, grows by one  *)
(* with every non-200 response and at no other step, never decreases and   *)
(* is not reset by the re-trigger: a cycle run to exhaustion has seen      *)
(* max_retries+1 non-200 responses in total.                               *)
(* ---------------------------------------------------------------------- *)
CounterInRange ==
    /\ repeat \in 0 .. max_retries + 1
    /\ Exhausted => (repeat = max_retries + 1 /\ checks = repeat)

C17_CounterNeverRebased ==
    /\ []CounterInRange
    /\ [][(InCycle /\ pc # "finished") =>
            /\ repeat' \in {repeat, repeat + 1}
            /\ pc = "retrigger" => repeat' = repeat
            /\ repeat' = repeat + 1
                 <=> (checks' = checks + 1 /\ data_response'.status_code # 200)]_vars

C17_Witness ==
    /\ max_retries = DefaultMaxRetries
    /\ repeat = max_retries + 1
    /\ data_url = 2
    /\ pc = "finished"

(* ---------------------------------------------------------------------- *)
(* C18: a failing exec_query call, at the initial trigger or at the        *)
(* re-trigger, is not retried: the cycle is aborted at once, no further    *)
(* fetch, trigger or upload is made for the report and generate_report     *)
(* prints the failure line.                                                *)
(* ---------------------------------------------------------------------- *)
\* an exec_query call that returned no location
ExecQueryFailedStep == pc \in {"exec_query", "retrigger"} /\ data_url' = data_url

TriggerFailureAborts ==
    err = "exec_query_error" =>
        /\ pc \in {"raised", "finished"}
        /\ uploadCalls = 0
        /\ json_data = NoJson
        /\ pc = "finished" => FailureLine(Report, "exec_query_error") \in log

C18_TriggerFailureNotRetried ==
    /\ []TriggerFailureAborts
    /\ [][/\ ExecQueryFailedStep => (pc' = "raised" /\ err' = "exec_query_error")
          /\ (err = "exec_query_error" /\ pc = "raised") =>
                /\ pc' = "finished"
                /\ checks' = checks
                /\ execCalls' = execCalls
                /\ request' = request]_vars

C18_Witness ==
    /\ pc = "finished"
    /\ err = "exec_query_error"
    /\ execCalls = 2
    /\ checks > 0

(* ---------------------------------------------------------------------- *)
(* C19: the return statement is reached only after a fetch has returned a  *)
(* response: the response read there is defined, and the loop was left     *)
(* either on its status 200 or on the counter passing max_retries, also    *)
(* when the cycle began with transport failures.                           *)
(* ---------------------------------------------------------------------- *)
C19_ReturnAfterResponse ==
    pc = "return" =>
        /\ data_response \in Responses
        /\ checks >= 1
        /\ request # NoRequest
        /\ data_response.status_code = 200 \/ repeat > max_retries

C19_Witness ==
    /\ pc = "return"
    /\ TransportLine \in log
    /\ checks = 1
    /\ max_retries = 0

\* generate_game_bank_report is running or has ended
IsGameBank == args.command = "generate-reports" /\ pc # "main"

====
